---- MODULE Spec2Model ----
(***************************************************************************)
(* MuralScan, src/app.ts: the App singleton.  The anchor side reacts to    *)
(* the three wayspot tracking events and writes the origin group and the   *)
(* rootContainer nested inside it; the selection side runs update() once   *)
(* per frame, keeps at most one selected mesh and drives the caption and   *)
(* detail elements; two fetches fill muralData and wayspotData at any time *)
(* after initialize().  JavaScript runs every handler to completion, so    *)
(* each handler is one action.  A handler that raises a TypeError keeps    *)
(* the writes it made before the raise.                                    *)
(***************************************************************************)
EXTENDS Integers, Sequences, FiniteSets, TLC

\* Longest hit-test result list a frame delivers.
MaxHits == 2

----------------------------------------------------------------------------
(* Values *)

Null == "null"

\* Pickable meshes of the scene and the name (tag) each carries.
Meshes == {"m1", "m2", "m3"}

name(mesh) ==
    CASE mesh = "m1" -> "fig1"
      [] mesh = "m2" -> "fig2"
      [] mesh = "m3" -> "fig3"

\* FigureData records a mural document can hold.
FigA  == [tag |-> "fig1", caption |-> "A",  detail |-> "Long A"]
FigA2 == [tag |-> "fig1", caption |-> "A2", detail |-> "Long A2"]
FigB  == [tag |-> "fig2", caption |-> "B",  detail |-> "Long B"]

\* The figures lists /murals/<hash>.json can resolve to ("fig3" never has a
\* record; the third list holds a duplicate tag).
MuralPayloads == { <<FigA>>, <<FigA, FigB>>, <<FigA, FigA2, FigB>> }

\* Offset records (position, Euler rotation, scale).
OffsetOne == [position |-> <<1, 0, 0>>, rotation |-> <<0, 0, 0>>, scale |-> <<1, 1, 1>>]
OffsetTwo == [position |-> <<0, 2, 0>>, rotation |-> <<0, 1, 0>>, scale |-> <<2, 2, 2>>]

\* Wayspot names the tracker reports ("wp2" never has a calibration entry).
WayspotNames == {"wp1", "wp2", "wp3"}

\* The documents /wayspots.json can resolve to.
WayspotPayloads ==
    { "wp1" :> [offset |-> OffsetOne],
      ("wp1" :> [offset |-> OffsetOne]) @@ ("wp3" :> [offset |-> OffsetTwo]) }

\* World poses carried by tracking events (the origin starts at the zero
\* position and the identity quaternion <<0, 0, 0, 1>>).
Positions == { <<0, 0, 1>>, <<2, 0, 0>> }
Rotations == { <<0, 1, 0, 0>> }

Details == [name : WayspotNames, position : Positions, rotation : Rotations]

\* Hit-test result lists, nearest first.
RECURSIVE SeqsUpTo(_, _)
SeqsUpTo(S, n) ==
    IF n = 0 THEN { <<>> }
    ELSE LET shorter == SeqsUpTo(S, n - 1)
         IN  shorter \cup { Append(s, x) : s \in shorter, x \in S }

Intersections == SeqsUpTo(Meshes, MaxHits)

----------------------------------------------------------------------------
(* State *)

VARIABLES
    wayspotData,        \* [defined, value]: undefined until its fetch resolves
    muralData,          \* [defined, figures]: undefined until its fetch resolves
    origin,             \* [position, quaternion]
    rootContainer,      \* [position, rotation, scale, visible]
    selected,           \* a mesh or Null
    opacity,            \* material opacity of each mesh, "0" or "0.25"
    captionVisibility,  \* caption.style.visibility
    detailVisibility,   \* detail.style.visibility
    captionText,        \* caption.innerText
    detailText,         \* detail.innerText
    event,              \* the handler that ran last, with its input
    fx,                 \* the writes update() made, in program order
    error,              \* TRUE when the last handler ended in a TypeError
    earlyFound,         \* history: the name of the first Found event handled
                        \* while wayspotData was undefined, "" when none was
    repeated            \* history: the last handler was a tracking handler
                        \* called with the kind and detail of the call before

vars == << wayspotData, muralData, origin, rootContainer, selected, opacity,
           captionVisibility, detailVisibility, captionText, detailText,
           event, fx, error, earlyFound, repeated >>

anchorVars    == << origin, rootContainer >>
selectionVars == << selected, opacity, captionVisibility, detailVisibility,
                    captionText, detailText >>

NoDetail == [name |-> "", position |-> <<0, 0, 0>>, rotation |-> <<0, 0, 0, 1>>]

Ev(kind, detail, intersects) ==
    [kind |-> kind, detail |-> detail, intersects |-> intersects]

TrackingKinds == {"wayspotFound", "wayspotUpdated", "wayspotLost"}

\* The call (kind, detail) is the call the record ev holds.
SameCall(kind, detail, ev) == ev.kind = kind /\ ev.detail = detail

----------------------------------------------------------------------------
(* Helpers of the selection side.  A write is <<field, target, value>>. *)

NoFigure == [tag |-> "", caption |-> "", detail |-> ""]

\* The for-of loop of findFigure from index i on: the first record whose tag
\* equals the tag, or null.
RECURSIVE findFrom(_, _, _)
findFrom(figures, i, tag) ==
    IF i > Len(figures) THEN [result |-> "null", figure |-> NoFigure]
    ELSE IF figures[i].tag = tag THEN [result |-> "figure", figure |-> figures[i]]
    ELSE findFrom(figures, i + 1, tag)

\* findFigure as it would be if the loop fell back on the first record
\* instead of returning null.
findFigure_fallsBack(md, tag) ==
    IF ~md.defined THEN [result |-> "TypeError", figure |-> NoFigure]
    ELSE IF findFrom(md.figures, 1, tag).result = "null" /\ Len(md.figures) > 0
    THEN [result |-> "figure", figure |-> md.figures[1]]
    ELSE findFrom(md.figures, 1, tag)

\* The loop as it would be if it kept going and returned the last match.
RECURSIVE findLastFrom(_, _, _, _)
findLastFrom(figures, i, tag, best) ==
    IF i > Len(figures) THEN best
    ELSE IF figures[i].tag = tag
    THEN findLastFrom(figures, i + 1, tag, [result |-> "figure", figure |-> figures[i]])
    ELSE findLastFrom(figures, i + 1, tag, best)

findFigure_lastMatch(md, tag) ==
    IF ~md.defined THEN [result |-> "TypeError", figure |-> NoFigure]
    ELSE findLastFrom(md.figures, 1, tag, [result |-> "null", figure |-> NoFigure])

\* findFigure(tag): reading .figures of an undefined muralData raises.
findFigure(md, tag) ==
    IF ~md.defined THEN [result |-> "TypeError", figure |-> NoFigure]
    ELSE findFrom(md.figures, 1, tag)

\* The pick as it would be with the nearest hit taken: intersects[0].object
pick_nearest(intersects) == intersects[1]

\* intersects[intersects.length - 1].object
pick(intersects) == intersects[Len(intersects)]

\* The comparison as it would be if every non-empty frame re-selected.
selectionChanged_always(newSelection, sel) == TRUE

\* newSelection != this.selected
selectionChanged(newSelection, sel) == newSelection # sel

\* deselect() as it would be without the displayCaption(false) call.
deselect_keepsCaption(sel) ==
    (IF sel # Null THEN << <<"opacity", sel, "0">> >> ELSE << >>)
    \o << <<"selected", "", Null>> >>

\* deselect() as it would be without the opacity reset.
deselect_keepsHighlight(sel) ==
    << <<"selected", "", Null>>,
       <<"captionVisibility", "", "hidden">> >>

\* deselect(): the writes it makes when this.selected is sel.
deselect(sel) ==
    (IF sel # Null THEN << <<"opacity", sel, "0">> >> ELSE << >>)
    \o << <<"selected", "", Null>>,
          <<"captionVisibility", "", "hidden">> >>

\* The branch as it would be if the caption were shown without the null test.
showFigure_always(figureData) ==
    CASE figureData.result = "TypeError" -> << <<"throw", "", "TypeError">> >>
      [] figureData.result = "figure" ->
            << <<"captionVisibility", "", "visible">>,
               <<"captionText", "", figureData.figure.caption>>,
               <<"detailText", "", figureData.figure.detail>> >>
      [] figureData.result = "null" -> << <<"captionVisibility", "", "visible">> >>

\* The writes of the branch taken once a figure lookup has returned.
showFigure(figureData) ==
    CASE figureData.result = "TypeError" -> << <<"throw", "", "TypeError">> >>
      [] figureData.result = "figure" ->
            << <<"captionVisibility", "", "visible">>,
               <<"captionText", "", figureData.figure.caption>>,
               <<"detailText", "", figureData.figure.detail>> >>
      [] figureData.result = "null" -> << >>

\* update() as it would be if the new mesh were highlighted before the old
\* selection is dropped.
updateWrites_selectFirst(intersects, sel, md) ==
    IF Len(intersects) > 0
    THEN IF selectionChanged(pick(intersects), sel)
         THEN << <<"opacity", pick(intersects), "0.25">> >>
              \o (IF sel # Null THEN << <<"opacity", sel, "0">> >> ELSE << >>)
              \o << <<"captionVisibility", "", "hidden">>,
                    <<"selected", "", pick(intersects)>> >>
              \o showFigure(findFigure(md, name(pick(intersects))))
         ELSE << >>
    ELSE deselect(sel)

\* update(): the writes one frame makes, in program order, given the
\* hit-test result, the selection and the mural store it starts from.
updateWrites(intersects, sel, md) ==
    IF Len(intersects) > 0
    THEN LET newSelection == pick(intersects)
         IN  IF selectionChanged(newSelection, sel)
             THEN deselect(sel)
                  \o << <<"selected", "", pick(intersects)>>,
                        <<"opacity", pick(intersects), "0.25">> >>
                  \o showFigure(findFigure(md, name(pick(intersects))))
             ELSE << >>
    ELSE deselect(sel)

\* The value a field holds once the writes have been made.
Written(writes, field, target, old) ==
    LET at == { i \in 1..Len(writes) : writes[i][1] = field /\ writes[i][2] = target }
    IN  IF at = {} THEN old
        ELSE writes[CHOOSE i \in at : \A j \in at : j <= i][3]

Threw(writes) == \E i \in 1..Len(writes) : writes[i][1] = "throw"

----------------------------------------------------------------------------
(* Helper of the anchor side. *)

Identity == [position |-> <<0, 0, 0>>, rotation |-> <<0, 0, 0>>, scale |-> <<1, 1, 1>>]

\* applyOffset as it would be if a name without an entry reset the container.
applyOffset_resetOnMiss(rc, wd, wayspotName) ==
    IF ~wd.defined THEN [threw |-> TRUE, container |-> rc]
    ELSE IF wayspotName \in DOMAIN wd.value
    THEN [threw |-> FALSE,
          container |-> [rc EXCEPT !.position = wd.value[wayspotName].offset.position,
                                   !.rotation = wd.value[wayspotName].offset.rotation,
                                   !.scale    = wd.value[wayspotName].offset.scale]]
    ELSE [threw |-> FALSE,
          container |-> [rc EXCEPT !.position = Identity.position,
                                   !.rotation = Identity.rotation,
                                   !.scale    = Identity.scale]]

\* applyOffset as it would be if the offset were applied once only, while the
\* container still holds its initial transform.
applyOffset_onlyFirst(rc, wd, wayspotName) ==
    IF ~wd.defined THEN [threw |-> TRUE, container |-> rc]
    ELSE IF wayspotName \in DOMAIN wd.value
            /\ rc.position = Identity.position
            /\ rc.rotation = Identity.rotation
            /\ rc.scale = Identity.scale
    THEN [threw |-> FALSE,
          container |-> [rc EXCEPT !.position = wd.value[wayspotName].offset.position,
                                   !.rotation = wd.value[wayspotName].offset.rotation,
                                   !.scale    = wd.value[wayspotName].offset.scale]]
    ELSE [threw |-> FALSE, container |-> rc]

\* applyOffset as it would be if the offset position were added to the
\* container's position instead of copied.
applyOffset_accumulates(rc, wd, wayspotName) ==
    IF ~wd.defined THEN [threw |-> TRUE, container |-> rc]
    ELSE IF wayspotName \in DOMAIN wd.value
    THEN [threw |-> FALSE,
          container |-> [rc EXCEPT !.position =
                                      [i \in 1..3 |-> rc.position[i]
                                          + wd.value[wayspotName].offset.position[i]],
                                   !.rotation = wd.value[wayspotName].offset.rotation,
                                   !.scale    = wd.value[wayspotName].offset.scale]]
    ELSE [threw |-> FALSE, container |-> rc]

\* applyOffset(wayspotName): `in` on an undefined wayspotData raises; a name
\* with an entry copies the entry's offset; any other name writes nothing.
applyOffset(rc, wd, wayspotName) ==
    IF ~wd.defined THEN [threw |-> TRUE, container |-> rc]
    ELSE IF wayspotName \in DOMAIN wd.value
    THEN [threw |-> FALSE,
          container |-> [rc EXCEPT !.position = wd.value[wayspotName].offset.position,
                                   !.rotation = wd.value[wayspotName].offset.rotation,
                                   !.scale    = wd.value[wayspotName].offset.scale]]
    ELSE [threw |-> FALSE, container |-> rc]

----------------------------------------------------------------------------
(* The state initialize() leaves, for either value of arMode. *)

Init ==
    /\ wayspotData = [defined |-> FALSE, value |-> << >>]
    /\ muralData = [defined |-> FALSE, figures |-> << >>]
    /\ origin = [position |-> <<0, 0, 0>>, quaternion |-> <<0, 0, 0, 1>>]
    /\ \E arMode \in BOOLEAN :
          rootContainer = [position |-> Identity.position, rotation |-> Identity.rotation,
                           scale |-> Identity.scale, visible |-> ~arMode]
    /\ selected = Null
    /\ opacity = [m \in Meshes |-> "0"]
    /\ captionVisibility = "hidden"
    /\ detailVisibility = "hidden"
    /\ captionText = ""
    /\ detailText = ""
    /\ event = Ev("initialize", NoDetail, << >>)
    /\ fx = << >>
    /\ error = FALSE
    /\ earlyFound = ""
    /\ repeated = FALSE

----------------------------------------------------------------------------
(* The fetches *)

fetchMural ==
    /\ ~muralData.defined
    /\ \E data \in MuralPayloads :
          muralData' = [defined |-> TRUE, figures |-> data]
    /\ event' = Ev("fetchMural", NoDetail, << >>)
    /\ fx' = << >>
    /\ error' = FALSE
    /\ repeated' = FALSE
    /\ UNCHANGED << wayspotData, anchorVars, selectionVars, earlyFound >>

fetchWayspots ==
    /\ ~wayspotData.defined
    /\ \E data \in WayspotPayloads :
          wayspotData' = [defined |-> TRUE, value |-> data]
    /\ event' = Ev("fetchWayspots", NoDetail, << >>)
    /\ fx' = << >>
    /\ error' = FALSE
    /\ repeated' = FALSE
    /\ UNCHANGED << muralData, anchorVars, selectionVars, earlyFound >>

----------------------------------------------------------------------------
(* The frame handler *)

update ==
    \E intersects \in Intersections :
        /\ fx' = updateWrites(intersects, selected, muralData)
        /\ selected' = Written(fx', "selected", "", selected)
        /\ opacity' = [m \in Meshes |-> Written(fx', "opacity", m, opacity[m])]
        /\ captionVisibility' = Written(fx', "captionVisibility", "", captionVisibility)
        /\ captionText' = Written(fx', "captionText", "", captionText)
        /\ detailText' = Written(fx', "detailText", "", detailText)
        /\ error' = Threw(fx')
        /\ event' = Ev("update", NoDetail, intersects)
        /\ repeated' = FALSE
        /\ UNCHANGED << wayspotData, muralData, anchorVars, detailVisibility, earlyFound >>

----------------------------------------------------------------------------
(* The click listeners.  A click reaches an element only while its          *)
(* visibility is "visible".                                                 *)

\* toggleDetail() as it would be if it only ever showed the detail.
toggleDetail_alwaysShow(state) == "visible"

toggleDetail(state) == IF state = "visible" THEN "hidden" ELSE "visible"

captionClick ==
    /\ captionVisibility = "visible"
    /\ detailVisibility' = toggleDetail(detailVisibility)
    /\ event' = Ev("captionClick", NoDetail, << >>)
    /\ fx' = << >>
    /\ error' = FALSE
    /\ repeated' = FALSE
    /\ UNCHANGED << wayspotData, muralData, anchorVars, selected, opacity,
                    captionVisibility, captionText, detailText, earlyFound >>

detailClick ==
    /\ detailVisibility = "visible"
    /\ detailVisibility' = "hidden"
    /\ event' = Ev("detailClick", NoDetail, << >>)
    /\ fx' = << >>
    /\ error' = FALSE
    /\ repeated' = FALSE
    /\ UNCHANGED << wayspotData, muralData, anchorVars, selected, opacity,
                    captionVisibility, captionText, detailText, earlyFound >>

----------------------------------------------------------------------------
(* The tracking handlers.  Each calls applyOffset first; when that raises,  *)
(* the statements after it do not run.                                      *)

wayspotFound ==
    \E detail \in Details :
        LET applied == applyOffset(rootContainer, wayspotData, detail.name)
        IN  /\ error' = applied.threw
            /\ IF applied.threw
               THEN UNCHANGED anchorVars
               ELSE /\ origin' = [position |-> detail.position,
                                  quaternion |-> detail.rotation]
                    /\ rootContainer' = [applied.container EXCEPT !.visible = TRUE]
            /\ event' = Ev("wayspotFound", detail, << >>)
            /\ fx' = << >>
            /\ repeated' = SameCall("wayspotFound", detail, event)
            /\ earlyFound' = IF ~wayspotData.defined /\ earlyFound = ""
                             THEN detail.name
                             ELSE earlyFound
            /\ UNCHANGED << wayspotData, muralData, selectionVars >>

wayspotUpdated ==
    \E detail \in Details :
        LET applied == applyOffset(rootContainer, wayspotData, detail.name)
        IN  /\ error' = applied.threw
            /\ IF applied.threw
               THEN UNCHANGED anchorVars
               ELSE /\ origin' = [position |-> detail.position,
                                  quaternion |-> detail.rotation]
                    /\ rootContainer' = [applied.container EXCEPT !.visible = TRUE]
            /\ event' = Ev("wayspotUpdated", detail, << >>)
            /\ fx' = << >>
            /\ repeated' = SameCall("wayspotUpdated", detail, event)
            /\ UNCHANGED earlyFound
            /\ UNCHANGED << wayspotData, muralData, selectionVars >>

\* wayspotLost as it would be if losing the wayspot also dropped the selection.
wayspotLost_deselects ==
    \E detail \in Details :
        LET applied == applyOffset(rootContainer, wayspotData, detail.name)
        IN  /\ error' = applied.threw
            /\ IF applied.threw
               THEN UNCHANGED anchorVars
               ELSE /\ origin' = [position |-> detail.position,
                                  quaternion |-> detail.rotation]
                    /\ rootContainer' = [applied.container EXCEPT !.visible = FALSE]
            /\ event' = Ev("wayspotLost", detail, << >>)
            /\ fx' = << >>
            /\ repeated' = SameCall("wayspotLost", detail, event)
            /\ selected' = Null
            /\ opacity' = [m \in Meshes |-> "0"]
            /\ captionVisibility' = "hidden"
            /\ UNCHANGED << wayspotData, muralData, detailVisibility, captionText,
                            detailText, earlyFound >>

wayspotLost ==
    \E detail \in Details :
        LET applied == applyOffset(rootContainer, wayspotData, detail.name)
        IN  /\ error' = applied.threw
            /\ IF applied.threw
               THEN UNCHANGED anchorVars
               ELSE /\ origin' = [position |-> detail.position,
                                  quaternion |-> detail.rotation]
                    /\ rootContainer' = [applied.container EXCEPT !.visible = FALSE]
            /\ event' = Ev("wayspotLost", detail, << >>)
            /\ fx' = << >>
            /\ repeated' = SameCall("wayspotLost", detail, event)
            /\ UNCHANGED earlyFound
            /\ UNCHANGED << wayspotData, muralData, selectionVars >>

----------------------------------------------------------------------------

Next ==
    \/ fetchMural
    \/ fetchWayspots
    \/ update
    \/ captionClick
    \/ detailClick
    \/ wayspotFound
    \/ wayspotUpdated
    \/ wayspotLost

Spec == Init /\ [][Next]_vars

----------------------------------------------------------------------------
(* Properties *)

\* The local transform of the container.
transform(rc) == [position |-> rc.position, rotation |-> rc.rotation, scale |-> rc.scale]

HasEntry(wd, n) == wd.defined /\ n \in DOMAIN wd.value

\* The positions of a write in a list of writes.
At(writes, w) == { i \in 1..Len(writes) : writes[i] = w }

\* The opacity of mesh m once the writes have been made.
OpacityAfter(op, writes, m) == Written(writes, "opacity", m, op[m])

\* C1: after every tracking event the container's local position, rotation
\* and scale equal the calibration entry's offset for the event's wayspot
\* name when the calibration has an entry for it, and are what they were
\* before the event when it has none.
C1_OffsetAppliedOrKept ==
    [][ event'.kind \in TrackingKinds =>
          IF HasEntry(wayspotData, event'.detail.name)
          THEN transform(rootContainer') = wayspotData.value[event'.detail.name].offset
          ELSE transform(rootContainer') = transform(rootContainer) ]_vars

\* C1 witness: an event for a name without an entry has been handled by a
\* loaded store while the container holds an offset applied earlier.
C1_Witness ==
    /\ event.kind \in TrackingKinds
    /\ wayspotData.defined
    /\ event.detail.name \notin DOMAIN wayspotData.value
    /\ ~error
    /\ transform(rootContainer) # Identity

\* C2 (as claimed): the container is visible after every Found or Updated
\* event and not visible after every Lost event.
C2_VisibilityFollowsEvent ==
    /\ event.kind \in {"wayspotFound", "wayspotUpdated"} => rootContainer.visible
    /\ event.kind = "wayspotLost" => ~rootContainer.visible

\* C3 (as claimed): no call of update() or of a tracking handler ends in an
\* error, whether or not the stores are loaded.
C3_NoHandlerError ==
    event.kind \in TrackingKinds \cup {"update"} => ~error

\* C4: a frame whose pick carries the tag of the current selection makes no
\* write: highlight, caption, texts, disclosure and selection stay as the
\* first frame of the run left them.
C4_SamePickNoEffect ==
    [][ ( /\ event'.kind = "update"
          /\ Len(event'.intersects) > 0
          /\ selected # Null
          /\ name(event'.intersects[Len(event'.intersects)]) = name(selected) )
        => /\ fx' = << >>
           /\ ~error'
           /\ UNCHANGED selectionVars ]_vars

\* C4 witness: a frame re-picked the selected mesh while caption and detail
\* are both shown.
C4_Witness ==
    /\ event.kind = "update"
    /\ Len(event.intersects) > 0
    /\ selected = event.intersects[Len(event.intersects)]
    /\ fx = << >>
    /\ captionVisibility = "visible"
    /\ detailVisibility = "visible"

\* C5: when a frame changes the selection from mesh A to another mesh B, the
\* writes that deselect A (A's opacity to 0, caption hidden) all come before
\* the writes that select B (B's opacity to 0.25, caption shown), and after
\* no prefix of the frame's writes are A and B both highlighted.
C5_DeselectBeforeSelect ==
    [][ ( /\ event'.kind = "update"
          /\ selected # Null
          /\ selected' # Null
          /\ selected' # selected )
        => LET A == selected
               B == selected'
               off == At(fx', <<"opacity", A, "0">>)
                      \cup At(fx', <<"captionVisibility", "", "hidden">>)
               on == At(fx', <<"opacity", B, "0.25">>)
                     \cup At(fx', <<"captionVisibility", "", "visible">>)
           IN  /\ At(fx', <<"opacity", A, "0">>) # {}
               /\ At(fx', <<"captionVisibility", "", "hidden">>) # {}
               /\ At(fx', <<"opacity", B, "0.25">>) # {}
               /\ \A i \in off : \A j \in on : i < j
               /\ \A k \in 0..Len(fx') :
                     ~ ( /\ OpacityAfter(opacity, SubSeq(fx', 1, k), A) = "0.25"
                         /\ OpacityAfter(opacity, SubSeq(fx', 1, k), B) = "0.25" ) ]_vars

\* C5 witness: a frame has replaced a highlighted selection by another mesh
\* whose caption is now shown.
C5_Witness ==
    /\ event.kind = "update"
    /\ selected # Null
    /\ Len(fx) > 0
    /\ fx[1][1] = "opacity" /\ fx[1][3] = "0" /\ fx[1][2] # selected
    /\ opacity[selected] = "0.25"
    /\ captionVisibility = "visible"

\* C6 (as claimed): after a Hide (a frame with an empty hit-test) caption and
\* detail are both hidden, and a click on the detail while nothing is
\* selected leaves the disclosure state unchanged.
C6_HideResetsDisclosure ==
    [][ /\ ( event'.kind = "update" /\ Len(event'.intersects) = 0 )
             => captionVisibility' = "hidden" /\ detailVisibility' = "hidden"
        /\ ( event'.kind = "detailClick" /\ selected = Null )
             => UNCHANGED << captionVisibility, detailVisibility >> ]_vars

\* C7 (as claimed): when a frame changes the selection to a mesh with a
\* matching figure record, the caption is visible with that record's text
\* and the detail is hidden.
C7_SelectGivesCaptionOnly ==
    [][ ( /\ event'.kind = "update"
          /\ selected' # Null
          /\ selected' # selected
          /\ findFigure(muralData, name(selected')).result = "figure" )
        => /\ captionVisibility' = "visible"
           /\ captionText' = findFigure(muralData, name(selected')).figure.caption
           /\ detailVisibility' = "hidden" ]_vars

\* C8 (as claimed): the detail is never visible while the caption is hidden.
C8_DisclosureStates ==
    ~ ( detailVisibility = "visible" /\ captionVisibility = "hidden" )

\* C9: after a frame whose hit-test list is not empty, the selection is the
\* last entry of that list, whatever its length and the selection before.
C9_FarthestFirst ==
    ( event.kind = "update" /\ Len(event.intersects) > 0 )
    => selected = event.intersects[Len(event.intersects)]

\* C9 witness: a frame with several hits changed the selection to the last
\* entry, which is not the first.
C9_Witness ==
    /\ event.kind = "update"
    /\ Len(event.intersects) > 1
    /\ fx # << >>
    /\ selected = event.intersects[Len(event.intersects)]
    /\ event.intersects[1] # selected

\* C10: when a frame newly selects a mesh whose tag has no figure record in
\* the loaded mural, the mesh becomes the selection and is highlighted, the
\* caption is hidden, caption and detail texts are unchanged, and the frame
\* ends without error.
C10_LookupMiss ==
    [][ ( /\ event'.kind = "update"
          /\ Len(event'.intersects) > 0
          /\ event'.intersects[Len(event'.intersects)] # selected
          /\ muralData.defined
          /\ \A i \in 1..Len(muralData.figures) :
                muralData.figures[i].tag # name(event'.intersects[Len(event'.intersects)]) )
        => /\ selected' = event'.intersects[Len(event'.intersects)]
           /\ opacity'[selected'] = "0.25"
           /\ captionVisibility' = "hidden"
           /\ UNCHANGED << captionText, detailText >>
           /\ ~error' ]_vars

\* C10 witness: a mesh without a figure record has just been selected in a
\* loaded mural while the caption still holds an earlier figure's text.
C10_Witness ==
    /\ event.kind = "update"
    /\ fx # << >>
    /\ muralData.defined
    /\ selected # Null
    /\ \A i \in 1..Len(muralData.figures) : muralData.figures[i].tag # name(selected)
    /\ opacity[selected] = "0.25"
    /\ captionVisibility = "hidden"
    /\ captionText # ""
    /\ ~error

\* The indices of the figure records whose tag is the tag.
Matches(figures, tag) == { i \in 1..Len(figures) : figures[i].tag = tag }

\* C11: when a frame newly selects a mesh whose tag matches one or more
\* figure records, the caption and detail texts are those of the first
\* record of the mural's figure list with that tag.
C11_FirstMatchWins ==
    ( /\ event.kind = "update"
      /\ fx # << >>
      /\ selected # Null
      /\ muralData.defined
      /\ Matches(muralData.figures, name(selected)) # {} )
    => \E i \in Matches(muralData.figures, name(selected)) :
          /\ \A j \in Matches(muralData.figures, name(selected)) : i <= j
          /\ captionText = muralData.figures[i].caption
          /\ detailText = muralData.figures[i].detail

\* C11 witness: a mesh whose tag two records carry has just been selected
\* and the caption shows the first record's text.
C11_Witness ==
    /\ event.kind = "update"
    /\ fx # << >>
    /\ selected # Null
    /\ muralData.defined
    /\ Cardinality(Matches(muralData.figures, name(selected))) > 1
    /\ captionVisibility = "visible"
    /\ captionText = "A"

\* C12: a frame with an empty hit-test leaves no selection and the caption
\* hidden, sets the opacity of the mesh selected before it to 0, and changes
\* nothing when nothing was selected.
C12_EmptyHitDeselects ==
    [][ ( event'.kind = "update" /\ Len(event'.intersects) = 0 )
        => /\ selected' = Null
           /\ captionVisibility' = "hidden"
           /\ selected # Null => opacity'[selected] = "0"
           /\ selected = Null => UNCHANGED selectionVars ]_vars

\* C12 witness: an empty frame has just dropped a highlighted selection
\* whose caption was shown.
C12_Witness ==
    /\ event.kind = "update"
    /\ Len(event.intersects) = 0
    /\ Len(fx) = 3
    /\ fx[1][1] = "opacity"
    /\ selected = Null
    /\ captionVisibility = "hidden"
    /\ captionText # ""

\* C13 (as claimed): after every tracking event of any kind the origin's
\* position and rotation are those the event carries.
C13_OriginFollowsEvent ==
    event.kind \in TrackingKinds
    => /\ origin.position = event.detail.position
       /\ origin.quaternion = event.detail.rotation

\* The effects of the tracking event held in ev are all in place.
Applied(ev, org, rc, wd) ==
    /\ org.position = ev.detail.position
    /\ org.quaternion = ev.detail.rotation
    /\ rc.visible = (ev.kind # "wayspotLost")
    /\ HasEntry(wd, ev.detail.name) => transform(rc) = wd.value[ev.detail.name].offset

\* C14 (as claimed): a frame that follows a tracking event starts with the
\* event's origin pose, visibility and (where a calibration exists) offset
\* all in place.
C14_EventAppliedBeforeFrame ==
    [][ ( event'.kind = "update" /\ event.kind \in TrackingKinds )
        => Applied(event, origin, rootContainer, wayspotData) ]_vars

\* C15: the store is read again on every tracking event: when a Found event
\* for a wayspot was handled before the calibration fetch resolved and the
\* loaded store has an entry for that wayspot, the container's local
\* transform equals the entry after every later tracking event for it.
C15_StoreReadOnEveryEvent ==
    ( /\ event.kind \in TrackingKinds
      /\ earlyFound = event.detail.name
      /\ HasEntry(wayspotData, event.detail.name) )
    => transform(rootContainer) = wayspotData.value[event.detail.name].offset

\* C15 witness: a tracking event for "wp3" has been handled after the fetch
\* resolved, a Found event for "wp3" having been handled before it; the
\* container holds the entry of "wp3".
C15_Witness ==
    /\ event.kind \in TrackingKinds
    /\ event.detail.name = "wp3"
    /\ earlyFound = "wp3"
    /\ HasEntry(wayspotData, "wp3")
    /\ transform(rootContainer) = OffsetTwo

\* C16: delivering the tracking event just handled once more, with nothing in
\* between, leaves the origin pose, the container transform and the
\* visibility as they are.
C16_TrackingIdempotent ==
    [][ ( /\ event'.kind \in TrackingKinds
          /\ event.kind = event'.kind
          /\ event.detail = event'.detail )
        => UNCHANGED anchorVars ]_vars

\* C16 witness: a Lost event has been handled twice in a row by a loaded
\* store that holds an entry for its wayspot.
C16_Witness ==
    /\ repeated
    /\ event.kind = "wayspotLost"
    /\ HasEntry(wayspotData, event.detail.name)
    /\ transform(rootContainer) = wayspotData.value[event.detail.name].offset
    /\ ~rootContainer.visible

\* C17: a click on the caption flips the detail between visible and hidden and
\* leaves the caption's visibility and the selection unchanged; a click on
\* the detail while caption and detail are both visible hides the detail and
\* leaves the caption visible.
C17_Taps ==
    [][ /\ event'.kind = "captionClick"
           => /\ detailVisibility \in {"visible", "hidden"}
              /\ detailVisibility' \in {"visible", "hidden"}
              /\ detailVisibility' # detailVisibility
              /\ UNCHANGED << captionVisibility, selected >>
        /\ ( /\ event'.kind = "detailClick"
             /\ captionVisibility = "visible"
             /\ detailVisibility = "visible" )
           => /\ detailVisibility' = "hidden"
              /\ captionVisibility' = "visible" ]_vars

\* C17 witness: a click on the caption has hidden a detail that an earlier
\* click on the caption had shown.
C17_Witness ==
    /\ event.kind = "captionClick"
    /\ detailVisibility = "hidden"
    /\ captionVisibility = "visible"
    /\ selected # Null

\* C18: the caption is visible only while a mesh is selected whose tag a
\* figure record of the loaded mural carries.
C18_CaptionNeedsSelection ==
    captionVisibility = "visible"
    => /\ selected # Null
       /\ muralData.defined
       /\ Matches(muralData.figures, name(selected)) # {}

\* C18 witness: the caption is visible after a frame that replaced one
\* selection by another.
C18_Witness ==
    /\ captionVisibility = "visible"
    /\ event.kind = "update"
    /\ Len(fx) = 8
    /\ selected # Null

\* C19: a mesh has the selected opacity 0.25 exactly when it is the current
\* selection, so at most one mesh has it, also after a frame that raised.
C19_OneHighlight ==
    \A m \in Meshes : opacity[m] = "0.25" <=> selected = m

\* C19 witness: a frame that replaced a selection has ended in an error.
C19_Witness ==
    /\ event.kind = "update"
    /\ error
    /\ Len(fx) = 6
    /\ selected # Null
    /\ opacity[selected] = "0.25"

\* C20: a tracking event leaves the selection, the highlights and the caption
\* and detail visibility and text unchanged; a frame or a click leaves the
\* origin pose, the container transform and the visibility unchanged.
C20_MachinesApart ==
    [][ /\ event'.kind \in TrackingKinds => UNCHANGED selectionVars
        /\ event'.kind \in {"update", "captionClick", "detailClick"}
           => UNCHANGED anchorVars ]_vars

\* C20 witness: a Lost event has hidden the container while a mesh is
\* selected and caption and detail are shown.
C20_Witness ==
    /\ event.kind = "wayspotLost"
    /\ ~error
    /\ ~rootContainer.visible
    /\ selected # Null
    /\ opacity[selected] = "0.25"
    /\ captionVisibility = "visible"
    /\ detailVisibility = "visible"

====
